---- MODULE Spec2Model ----
(***************************************************************************)
(* Model of the session controller of AlternateHistories                   *)
(* (src/src/game_engine.py), together with the scenario catalog            *)
(* (src/src/scenarios.py) and the narration client (src/src/ai_client.py). *)
(*                                                                         *)
(* Python values are represented as follows.                               *)
(*   - Optional[GameState] is a sequence of length 0 (None) or 1.          *)
(*   - A dict with optional keys is a record whose fields hold Absent when *)
(*     the key is missing.                                                 *)
(*   - The reply of the text service is an input of the action that issues *)
(*     the request; every shape the service can produce is enumerated.     *)
(* The loading indicator (ui.start_loading / ui.stop_loading) carries no   *)
(* data back to the engine and is left out.                                *)
(***************************************************************************)
EXTENDS Integers, Sequences, FiniteSets, TLC

VARIABLES
    current_state,      \* GameEngine.current_state: <<>> is None, <<s>> a GameState
    _active,            \* GameEngine._active
    op,                 \* the engine operation that ran last
    arg,                \* its argument (scenario_name or choice_id)
    ret,                \* what it returned: "True", "False", "list", "None", "dict", "{}" or "raised"
    available_choices,  \* value of the latest get_available_choices() call, direct or inside make_choice
    response,           \* shape of the generate_choices reply that call received
    consequence,        \* outcome of the generate_consequence call of the last make_choice
    reqs,               \* requests the last operation sent to the AIClient, in order
    prior,              \* state of the session machine when the last operation was called
    view,               \* the dict the last operation returned, when it was get_current_state
    pc,                 \* main(): the line the driver loop stands at
    main_state,         \* main(): the local current_state (a dict), <<>> before it is assigned
    main_choices,       \* main(): the local choices
    main_choice,        \* main(): the local choice
    shown,              \* what display_situation / display_ending put on the screen last
    left                \* how main() left the inner loop the last time

engine_vars == <<current_state, _active, op, arg, ret, available_choices, response,
                 consequence, reqs, prior, view>>

main_vars == <<pc, main_state, main_choices, main_choice, shown, left>>

vars == <<current_state, _active, op, arg, ret, available_choices, response,
          consequence, reqs, prior, view, pc, main_state, main_choices, main_choice,
          shown, left>>

-----------------------------------------------------------------------------
(* Bounds of the model *)

MaxChoices == 2      \* longest choices_made explored
MaxLog == 3          \* longest timeline_alterations explored

-----------------------------------------------------------------------------
(* scenarios.py *)

Absent == "<absent>"

AVAILABLE_SCENARIOS ==
    "library_alexandria" :> [name |-> "The Library of Alexandria",
                             initial_situation |-> "You are the head librarian of the Great Library of Alexandria in 48 BCE. ..."]
 @@ "mongol_europe" :> [name |-> "Mongol Invasion of Europe",
                        initial_situation |-> "You are Ogedei Khan, son of Genghis Khan, ..."]
 @@ "columbus_pacific" :> [name |-> "Columbus Sails West to Asia",
                           initial_situation |-> "You are Christopher Columbus, ..."]
 @@ "black_death" :> [name |-> "The Black Death Prevention",
                      initial_situation |-> "You are a physician in the port city of Genoa ..."]
 @@ "archduke_survives" :> [name |-> "Archduke Franz Ferdinand Lives",
                            initial_situation |-> "You are Archduke Franz Ferdinand of Austria-Hungary, ..."]
 @@ "lusitania_warning" :> [name |-> "The Lusitania's Final Voyage",
                            initial_situation |-> "You are Captain William Turner of the RMS Lusitania. ..."]
 @@ "zimmermann_intercepted" :> [name |-> "The Zimmermann Telegram Plot",
                                 initial_situation |-> "You are Foreign Secretary Arthur Zimmermann of Germany. ..."]
 @@ "hitler_art_school" :> [name |-> "The Rejected Artist's Path",
                            initial_situation |-> "You are the admissions director of the Vienna Academy of Fine Arts. ..."]
 @@ "pearl_harbor_warning" :> [name |-> "The Pearl Harbor Intelligence",
                               initial_situation |-> "You are Admiral Husband Kimmel, ..."]
 @@ "operation_barbarossa" :> [name |-> "Stalin's Dilemma",
                               initial_situation |-> "You are Joseph Stalin, ..."]
 @@ "d_day_weather" :> [name |-> "D-Day: The Weather Decision",
                        initial_situation |-> "You are General Dwight D. Eisenhower, ..."]

-----------------------------------------------------------------------------
(* game_engine.py: GameState *)

\* GameState.__init__ taking the wrong field of the scenario for the situation
GameState_NameAsSituation(scenario) ==
    [ scenario             |-> scenario,
      current_situation    |-> scenario.name,
      choices_made         |-> <<>>,
      timeline_alterations |-> <<>>,
      is_complete          |-> FALSE ]

GameState(scenario) ==
    [ scenario             |-> scenario,
      current_situation    |-> scenario.initial_situation,
      choices_made         |-> <<>>,
      timeline_alterations |-> <<>>,
      is_complete          |-> FALSE ]

NoChoices == [kind |-> "uncalled", list |-> <<>>]
NoConsequence == [kind |-> "uncalled", new_situation |-> Absent,
                  alterations |-> [kind |-> "absent", list |-> <<>>], is_ending |-> Absent]

NothingShown == [by |-> "none", situation |-> "", timeline_alterations |-> <<>>]

\* States of the session machine: no session, a session in play, a session ended
Phase(cs) ==
    IF cs = <<>> THEN "Uninitialized"
    ELSE IF cs[1].is_complete THEN "Complete" ELSE "Active"

Init ==
    /\ current_state = <<>>
    /\ _active = FALSE
    /\ op = "__init__"
    /\ arg = ""
    /\ ret = "None"
    /\ available_choices = NoChoices
    /\ response = "none"
    /\ consequence = NoConsequence
    /\ reqs = <<>>
    /\ prior = "Uninitialized"
    /\ view = <<>>
    /\ pc = "select_scenario"
    /\ main_state = <<>>
    /\ main_choices = <<>>
    /\ main_choice = ""
    /\ shown = NothingShown
    /\ left = "never"

-----------------------------------------------------------------------------
(* game_engine.py: GameEngine.start_scenario *)

\* the identifiers start_scenario is called with: two of the catalog and one
\* that is not in it
ScenarioNames ==
    {"library_alexandria", "d_day_weather", "atlantis"}

\* start_scenario dropping the session before it looks the scenario up
start_scenario_DropsSessionFirst(scenario_name) ==
    /\ op' = "start_scenario"
    /\ arg' = scenario_name
    /\ available_choices' = NoChoices
    /\ response' = "none"
    /\ consequence' = NoConsequence
    /\ reqs' = <<>>
    /\ prior' = Phase(current_state)
    /\ view' = <<>>
    /\ IF scenario_name \notin DOMAIN AVAILABLE_SCENARIOS
       THEN /\ ret' = "False"
            /\ current_state' = <<>>
            /\ _active' = FALSE
       ELSE /\ current_state' = <<GameState(AVAILABLE_SCENARIOS[scenario_name])>>
            /\ _active' = TRUE
            /\ ret' = "True"

start_scenario(scenario_name) ==
    /\ op' = "start_scenario"
    /\ arg' = scenario_name
    /\ available_choices' = NoChoices
    /\ response' = "none"
    /\ consequence' = NoConsequence
    /\ reqs' = <<>>
    /\ prior' = Phase(current_state)
    /\ view' = <<>>
    /\ IF scenario_name \notin DOMAIN AVAILABLE_SCENARIOS
       THEN /\ ret' = "False"
            /\ UNCHANGED <<current_state, _active>>
       ELSE /\ current_state' = <<GameState(AVAILABLE_SCENARIOS[scenario_name])>>
            /\ _active' = TRUE
            /\ ret' = "True"

is_active ==
    _active /\ current_state # <<>> /\ ~current_state[1].is_complete

-----------------------------------------------------------------------------
(* game_engine.py: GameEngine.get_current_state *)

\* The dict of lines 51-59.  {} has no key; 'timeline_alterations' is the
\* session's own list, read here at the time of the call.
EmptyDict ==
    [ keys |-> {}, scenario_name |-> Absent, situation |-> Absent,
      choices_made |-> 0, timeline_alterations |-> <<>> ]

\* the dict reporting the length of the alteration log as the decision count
CurrentStateDict_CountsAlterations(cs) ==
    IF cs = <<>> THEN EmptyDict
    ELSE [ keys |-> {"scenario_name", "situation", "choices_made", "timeline_alterations"},
           scenario_name        |-> cs[1].scenario.name,
           situation            |-> cs[1].current_situation,
           choices_made         |-> Len(cs[1].timeline_alterations),
           timeline_alterations |-> cs[1].timeline_alterations ]

CurrentStateDict(cs) ==
    IF cs = <<>> THEN EmptyDict
    ELSE [ keys |-> {"scenario_name", "situation", "choices_made", "timeline_alterations"},
           scenario_name        |-> cs[1].scenario.name,
           situation            |-> cs[1].current_situation,
           choices_made         |-> Len(cs[1].choices_made),
           timeline_alterations |-> cs[1].timeline_alterations ]

get_current_state ==
    /\ op' = "get_current_state"
    /\ arg' = ""
    /\ ret' = IF current_state = <<>> THEN "{}" ELSE "dict"
    /\ view' = <<CurrentStateDict(current_state)>>
    /\ available_choices' = NoChoices
    /\ response' = "none"
    /\ consequence' = NoConsequence
    /\ reqs' = <<>>
    /\ prior' = Phase(current_state)
    /\ UNCHANGED <<current_state, _active>>

-----------------------------------------------------------------------------
(* The text service, as seen through ai_client.py.  A reply to              *)
(* generate_choices is one of                                               *)
(*   "raise"       the call to the service failed: generate_choices raises  *)
(*   "not_json"    text that json.loads rejects                             *)
(*   "not_object"  JSON that is not an object (a list, a number, ...)       *)
(*   "no_key"      a JSON object without the key 'choices'                  *)
(*   "null"        a JSON object with "choices": null                       *)
(*   "list"        a JSON object whose 'choices' is the list in .list       *)

\* The options the service is taken to reply with: a well-formed one, one
\* without 'description' and one without 'id'.
WellFormed ==
    [id |-> "choice_1", description |-> "Evacuate the scrolls",
     potential_impact |-> "Saves the collection"]
NoDescription ==
    [id |-> "choice_2", description |-> Absent,
     potential_impact |-> "Saves the collection"]
NoId ==
    [id |-> Absent, description |-> "Evacuate the scrolls",
     potential_impact |-> "Saves the collection"]

\* The values of 'choices' that are lists: empty, each option alone, and the
\* well-formed option before and after the one without 'id'.
OptionLists ==
    { <<>>, <<WellFormed>>, <<NoDescription>>, <<NoId>>,
      <<WellFormed, NoId>>, <<NoId, WellFormed>> }

ChoiceReplies ==
    [kind : {"raise", "not_json", "not_object", "no_key", "null"}, list : {<<>>}]
    \cup [kind : {"list"}, list : OptionLists]

NoReply == [kind |-> "none", list |-> <<>>]

\* AIClient.generate_choices: the reply's text, or an exception
generate_choices(reply) ==
    IF reply.kind = "raise"
    THEN [raised |-> TRUE, content |-> reply]
    ELSE [raised |-> FALSE, content |-> reply]

-----------------------------------------------------------------------------
(* game_engine.py: GameEngine._get_fallback_choices, _parse_ai_choices *)

_get_fallback_choices ==
    << [id |-> "diplomatic", description |-> "Pursue diplomatic negotiations",
        potential_impact |-> "May lead to peaceful resolution but could show weakness"],
       [id |-> "aggressive", description |-> "Take decisive military action",
        potential_impact |-> "Quick results but may escalate conflict"],
       [id |-> "wait", description |-> "Wait and gather more information",
        potential_impact |-> "Safer approach but may miss opportunities"] >>

\* the except clause of line 180 returning no choices instead of the fallback
_parse_ai_choices_EmptyOnError(ai_response) ==
    CASE ai_response.kind \in {"not_json", "not_object"} ->
            [kind |-> "list", list |-> <<>>]
      [] ai_response.kind = "no_key" -> [kind |-> "list", list |-> <<>>]
      [] ai_response.kind = "null" -> [kind |-> "None", list |-> <<>>]
      [] OTHER -> [kind |-> "list", list |-> ai_response.list]

\* json.loads raises on "not_json"; data.get raises on "not_object"; both are
\* caught by the bare except.  Otherwise data.get('choices', []) is returned
\* as it is, whatever it is.
_parse_ai_choices(ai_response) ==
    CASE ai_response.kind \in {"not_json", "not_object"} ->
            [kind |-> "list", list |-> _get_fallback_choices]
      [] ai_response.kind = "no_key" -> [kind |-> "list", list |-> <<>>]
      [] ai_response.kind = "null" -> [kind |-> "None", list |-> <<>>]
      [] OTHER -> [kind |-> "list", list |-> ai_response.list]

-----------------------------------------------------------------------------
(* game_engine.py: GameEngine._build_choice_generation_prompt *)

LastN(q, n) ==
    IF Len(q) <= n THEN q ELSE SubSeq(q, Len(q) - n + 1, Len(q))

\* choice['description'] raises KeyError for a recorded choice without that key
_build_choice_generation_prompt(state) ==
    LET recent == LastN(state.choices_made, 3)
    IN  IF \E i \in 1..Len(recent) : recent[i].description = Absent
        THEN [raised |-> TRUE, context |-> "", situation |-> "", previous |-> <<>>]
        ELSE [raised |-> FALSE,
              context |-> state.scenario.name,
              situation |-> state.current_situation,
              previous |-> [i \in 1..Len(recent) |-> recent[i].description]]

-----------------------------------------------------------------------------
(* game_engine.py: GameEngine.get_available_choices                         *)
(* The outcome of one call in engine state cs when the service answers      *)
(* reply: the value returned (kind "raised" when the call raises), whether  *)
(* a request was sent and the shape of the reply received.                  *)

\* line 63 testing only for a missing session
AvailableChoices_IgnoresComplete(cs, reply) ==
    IF cs = <<>>
    THEN [kind |-> "list", list |-> <<>>, sent |-> FALSE]
    ELSE IF _build_choice_generation_prompt(cs[1]).raised
    THEN [kind |-> "raised", list |-> <<>>, sent |-> FALSE]
    ELSE LET r == generate_choices(reply)
             v == IF r.raised
                  THEN [kind |-> "list", list |-> _get_fallback_choices]
                  ELSE _parse_ai_choices(r.content)
         IN  [kind |-> v.kind, list |-> v.list, sent |-> TRUE]

\* line 64 answering a session that has ended with the fallback options
AvailableChoices_FallbackWhenComplete(cs, reply) ==
    IF cs = <<>>
    THEN [kind |-> "list", list |-> <<>>, sent |-> FALSE]
    ELSE IF cs[1].is_complete
    THEN [kind |-> "list", list |-> _get_fallback_choices, sent |-> FALSE]
    ELSE IF _build_choice_generation_prompt(cs[1]).raised
    THEN [kind |-> "raised", list |-> <<>>, sent |-> FALSE]
    ELSE LET r == generate_choices(reply)
             v == IF r.raised
                  THEN [kind |-> "list", list |-> _get_fallback_choices]
                  ELSE _parse_ai_choices(r.content)
         IN  [kind |-> v.kind, list |-> v.list, sent |-> TRUE]

AvailableChoices(cs, reply) ==
    IF cs = <<>> \/ cs[1].is_complete
    THEN [kind |-> "list", list |-> <<>>, sent |-> FALSE]
    ELSE IF _build_choice_generation_prompt(cs[1]).raised
    THEN [kind |-> "raised", list |-> <<>>, sent |-> FALSE]
    ELSE LET r == generate_choices(reply)
             v == IF r.raised
                  THEN [kind |-> "list", list |-> _get_fallback_choices]
                  ELSE _parse_ai_choices(r.content)
         IN  [kind |-> v.kind, list |-> v.list, sent |-> TRUE]

\* the replies to enumerate: none when the call sends no request
RepliesFor(cs) ==
    IF \E reply \in ChoiceReplies : AvailableChoices(cs, reply).sent
    THEN ChoiceReplies ELSE {NoReply}

get_available_choices(reply) ==
    \E r \in {AvailableChoices(current_state, reply)} :
        /\ op' = "get_available_choices"
        /\ arg' = ""
        /\ ret' = r.kind
        /\ available_choices' = [kind |-> r.kind, list |-> r.list]
        /\ response' = IF r.sent THEN reply.kind ELSE "none"
        /\ consequence' = NoConsequence
        /\ reqs' = IF r.sent THEN <<"generate_choices">> ELSE <<>>
        /\ prior' = Phase(current_state)
        /\ view' = <<>>
        /\ UNCHANGED <<current_state, _active>>

-----------------------------------------------------------------------------
(* A reply to generate_consequence is one of                                *)
(*   "raise"       the call to the service failed                           *)
(*   "not_json"    text that json.loads rejects                             *)
(*   "not_object"  JSON that is not an object                               *)
(*   "object"      a JSON object; each of its three keys may be missing,    *)
(*                 'alterations' and 'is_ending' may be null                *)

Situations == {"X"}
AlterationLists == {<<"A">>, <<"B", "C">>}

AlterationValues ==
    [kind : {"absent", "null"}, list : {<<>>}] \cup [kind : {"list"}, list : AlterationLists]

ConsequenceReplies ==
    [kind : {"raise", "not_json", "not_object"}, new_situation : {Absent},
     alterations : {[kind |-> "absent", list |-> <<>>]}, is_ending : {Absent}]
    \cup [kind : {"object"}, new_situation : {Absent},
          alterations : {[kind |-> "absent", list |-> <<>>]}, is_ending : {Absent, "true"}]
    \cup [kind : {"object"}, new_situation : Situations,
          alterations : AlterationValues, is_ending : {Absent, "true", "false"}]

\* AIClient.generate_consequence: json.loads(content), or an exception
generate_consequence(reply) ==
    IF reply.kind \in {"raise", "not_json"}
    THEN [raised |-> TRUE, value |-> reply]
    ELSE [raised |-> FALSE, value |-> reply]

-----------------------------------------------------------------------------
(* game_engine.py: GameEngine._build_consequence_prompt *)

_build_consequence_prompt(state, choice) ==
    IF choice.description = Absent
    THEN [raised |-> TRUE, context |-> "", situation |-> "", choice_made |-> ""]
    ELSE [raised |-> FALSE,
          context |-> state.scenario.name,
          situation |-> state.current_situation,
          choice_made |-> choice.description]

-----------------------------------------------------------------------------
(* game_engine.py: GameEngine.make_choice *)

\* next((choice for choice in available_choices if choice['id'] == choice_id), None):
\* the scan stops at the first match; choice['id'] raises KeyError on an
\* option without the key.
RECURSIVE FindChoice(_, _, _)
FindChoice(list, i, choice_id) ==
    IF i > Len(list) THEN [kind |-> "none", index |-> 0]
    ELSE IF list[i].id = Absent THEN [kind |-> "raised", index |-> i]
    ELSE IF list[i].id = choice_id THEN [kind |-> "found", index |-> i]
    ELSE FindChoice(list, i + 1, choice_id)

\* lines 92-95: the option chosen, "none" or "raised" (iterating None raises)
ChosenOption(available, choice_id) ==
    IF available.kind = "None"
    THEN [kind |-> "raised", index |-> 0]
    ELSE FindChoice(available.list, 1, choice_id)

\* the fallback sentence quoting the option's id instead of its description
FallbackSituation_QuotesId(chosen_option) ==
    "Your choice to '" \o chosen_option.id
        \o "' has created ripple effects through history..."

FallbackSituation(chosen_option) ==
    "Your choice to '" \o chosen_option.description
        \o "' has created ripple effects through history..."

\* Python truth value of consequence.get('is_ending', False)
Truthy(is_ending) == is_ending = "true"

\* lines 103-123 with the alterations inserted at the front of the log
ApplyConsequence_Prepends(state, chosen_option, reply) ==
    LET r == generate_consequence(reply)
        fallback == [state EXCEPT !.current_situation = FallbackSituation(chosen_option)]
    IN  IF r.raised \/ r.value.kind # "object" \/ r.value.new_situation = Absent
        THEN fallback
        ELSE LET s1 == [state EXCEPT !.current_situation = r.value.new_situation]
             IN  IF r.value.alterations.kind = "null"
                 THEN [s1 EXCEPT !.current_situation = FallbackSituation(chosen_option)]
                 ELSE LET s2 == [s1 EXCEPT !.timeline_alterations = r.value.alterations.list \o @]
                      IN  IF Truthy(r.value.is_ending)
                          THEN [s2 EXCEPT !.is_complete = TRUE]
                          ELSE s2

\* lines 103-123: the try block and its except clause
ApplyConsequence(state, chosen_option, reply) ==
    LET r == generate_consequence(reply)
        fallback == [state EXCEPT !.current_situation = FallbackSituation(chosen_option)]
    IN  IF r.raised \/ r.value.kind # "object" \/ r.value.new_situation = Absent
        THEN fallback
        ELSE LET s1 == [state EXCEPT !.current_situation = r.value.new_situation]
             IN  IF r.value.alterations.kind = "null"
                 THEN [s1 EXCEPT !.current_situation = FallbackSituation(chosen_option)]
                 ELSE LET s2 == [s1 EXCEPT !.timeline_alterations = @ \o r.value.alterations.list]
                      IN  IF Truthy(r.value.is_ending)
                          THEN [s2 EXCEPT !.is_complete = TRUE]
                          ELSE s2

\* The outcome of make_choice(choice_id) in engine state cs
MakeChoice(cs, choice_id, reply, creply) ==
    IF cs = <<>>
    THEN [ret |-> "False", state |-> cs, available |-> NoChoices,
          response |-> "none", consequence |-> NoConsequence, reqs |-> <<>>]
    ELSE
    LET a == AvailableChoices(cs, reply)
        resp == IF a.sent THEN reply.kind ELSE "none"
        sent == IF a.sent THEN <<"generate_choices">> ELSE <<>>
        avail == [kind |-> a.kind, list |-> a.list]
        c == ChosenOption(a, choice_id)
    IN  IF a.kind = "raised" \/ c.kind = "raised"
        THEN [ret |-> "raised", state |-> cs, available |-> avail,
              response |-> resp, consequence |-> NoConsequence, reqs |-> sent]
        ELSE IF c.kind = "none"
        THEN [ret |-> "False", state |-> cs, available |-> avail,
              response |-> resp, consequence |-> NoConsequence, reqs |-> sent]
        ELSE
        LET chosen_option == a.list[c.index]
            recorded == [cs[1] EXCEPT !.choices_made = Append(@, chosen_option)]
        IN  IF _build_consequence_prompt(recorded, chosen_option).raised
            THEN [ret |-> "raised", state |-> <<recorded>>, available |-> avail,
                  response |-> resp, consequence |-> NoConsequence, reqs |-> sent]
            ELSE [ret |-> "True",
                  state |-> <<ApplyConsequence(recorded, chosen_option, creply)>>,
                  available |-> avail, response |-> resp, consequence |-> creply,
                  reqs |-> Append(sent, "generate_consequence")]

ChoiceIds == {"choice_1", "choice_2", "diplomatic"}

\* the replies to enumerate: none when the call never reaches line 107
ConsequenceRepliesFor(cs, choice_id, reply) ==
    LET sent == MakeChoice(cs, choice_id, reply, NoConsequence).reqs
    IN  IF \E i \in DOMAIN sent : sent[i] = "generate_consequence"
        THEN ConsequenceReplies ELSE {NoConsequence}

\* the lists the model explores: a longer history or log is not followed
WithinBounds(cs) ==
    IF cs = <<>> THEN TRUE
    ELSE /\ Len(cs[1].choices_made) <= MaxChoices
         /\ Len(cs[1].timeline_alterations) <= MaxLog

make_choice(choice_id, reply, creply) ==
    \E r \in {MakeChoice(current_state, choice_id, reply, creply)} :
        /\ WithinBounds(r.state)
        /\ op' = "make_choice"
        /\ arg' = choice_id
        /\ ret' = r.ret
        /\ current_state' = r.state
        /\ available_choices' = r.available
        /\ response' = r.response
        /\ consequence' = r.consequence
        /\ reqs' = r.reqs
        /\ prior' = Phase(current_state)
        /\ view' = <<>>
        /\ UNCHANGED _active

\* The engine under any caller: its four operations in any order.
Next ==
    \/ \E n \in ScenarioNames :
          start_scenario(n) /\ UNCHANGED main_vars
    \/ get_current_state /\ UNCHANGED main_vars
    \/ \E reply \in RepliesFor(current_state) :
          get_available_choices(reply) /\ UNCHANGED main_vars
    \/ \E choice_id \in ChoiceIds, reply \in RepliesFor(current_state) :
          \E creply \in ConsequenceRepliesFor(current_state, choice_id, reply) :
              make_choice(choice_id, reply, creply) /\ UNCHANGED main_vars

Spec == Init /\ [][Next]_vars

-----------------------------------------------------------------------------
(* main.py: main(), lines 43-63, with the calls it makes to ui.py.  pc names  *)
(* the call the loop is about to make.  An exception that reaches main() is   *)
(* caught at line 69 and ends the process with sys.exit(1).                   *)

\* ui.select_scenario returns a key of the catalog or None (exit)
MenuKeys == ScenarioNames \cap DOMAIN AVAILABLE_SCENARIOS

\* ConsoleUI.display_situation / display_ending: the situation and the
\* alterations of the dict they were handed
Display(by, state) ==
    [by |-> by, situation |-> state.situation,
     timeline_alterations |-> state.timeline_alterations]

\* ConsoleUI.get_user_choice(choices) when the user types n: "raised" when
\* printing the menu or reading the id meets a missing key, "None" for
\* 'Return to scenario selection', otherwise the id of the n-th choice
get_user_choice(shown_choices, n) ==
    IF \E i \in DOMAIN shown_choices : shown_choices[i].description = Absent
    THEN [kind |-> "raised", id |-> ""]
    ELSE IF n = Len(shown_choices) + 1
    THEN [kind |-> "None", id |-> ""]
    ELSE IF shown_choices[n].id = Absent
    THEN [kind |-> "raised", id |-> ""]
    ELSE [kind |-> "id", id |-> shown_choices[n].id]

\* lines 44-48
main_select_scenario ==
    /\ pc = "select_scenario"
    /\ \/ /\ pc' = "goodbye_screen"
          /\ UNCHANGED engine_vars
       \/ /\ \E scenario \in MenuKeys : start_scenario(scenario)
          /\ pc' = "is_active"
    /\ UNCHANGED <<main_state, main_choices, main_choice, shown, left>>

\* line 50
main_is_active ==
    /\ pc = "is_active"
    /\ IF is_active
       THEN pc' = "get_current_state" /\ UNCHANGED left
       ELSE pc' = "select_scenario" /\ left' = "not_active"
    /\ UNCHANGED engine_vars
    /\ UNCHANGED <<main_state, main_choices, main_choice, shown>>

\* lines 51-52
main_get_current_state ==
    /\ pc = "get_current_state"
    /\ get_current_state
    /\ main_state' = view'
    /\ shown' = Display("display_situation", view'[1])
    /\ pc' = "get_available_choices"
    /\ UNCHANGED <<main_choices, main_choice, left>>

\* lines 54-57
main_get_available_choices ==
    /\ pc = "get_available_choices"
    /\ \E reply \in RepliesFor(current_state) : get_available_choices(reply)
    /\ IF ret' = "raised"
       THEN /\ pc' = "sys.exit(1)"
            /\ UNCHANGED <<main_choices, shown, left>>
       ELSE /\ main_choices' = available_choices'.list
            /\ IF available_choices'.kind = "None" \/ available_choices'.list = <<>>
               THEN /\ shown' = Display("display_ending", main_state[1])
                    /\ left' = "no_choices"
                    /\ pc' = "select_scenario"
               ELSE /\ pc' = "get_user_choice"
                    /\ UNCHANGED <<shown, left>>
    /\ UNCHANGED <<main_state, main_choice>>

\* lines 59-61
main_get_user_choice ==
    /\ pc = "get_user_choice"
    /\ \E n \in 1..(Len(main_choices) + 1) :
          \E c \in {get_user_choice(main_choices, n)} :
             CASE c.kind = "raised" ->
                    /\ pc' = "sys.exit(1)"
                    /\ UNCHANGED <<main_choice, left>>
               [] c.kind = "None" ->
                    /\ pc' = "select_scenario"
                    /\ left' = "back"
                    /\ UNCHANGED main_choice
               [] OTHER ->
                    /\ pc' = "make_choice"
                    /\ main_choice' = c.id
                    /\ UNCHANGED left
    /\ UNCHANGED engine_vars
    /\ UNCHANGED <<main_state, main_choices, shown>>

\* line 63
main_make_choice ==
    /\ pc = "make_choice"
    /\ \E reply \in RepliesFor(current_state) :
          \E creply \in ConsequenceRepliesFor(current_state, main_choice, reply) :
             make_choice(main_choice, reply, creply)
    /\ pc' = IF ret' = "raised" THEN "sys.exit(1)" ELSE "is_active"
    /\ UNCHANGED <<main_state, main_choices, main_choice, shown, left>>

MainNext ==
    \/ main_select_scenario
    \/ main_is_active
    \/ main_get_current_state
    \/ main_get_available_choices
    \/ main_get_user_choice
    \/ main_make_choice

\* The engine as main() drives it.
MainSpec == Init /\ [][MainNext]_vars

-----------------------------------------------------------------------------
(* Properties *)

Session == current_state[1]

\* C1: start_scenario with an identifier of the catalog, from any state of the
\* engine, returns True and leaves an active session in the scenario's
\* initial situation, with no decision made, an empty alteration log and the
\* completion flag down.
C1_StartScenarioFresh ==
    (op = "start_scenario" /\ arg \in DOMAIN AVAILABLE_SCENARIOS) =>
        /\ ret = "True"
        /\ is_active
        /\ Phase(current_state) = "Active"
        /\ Session.scenario = AVAILABLE_SCENARIOS[arg]
        /\ Session.current_situation = AVAILABLE_SCENARIOS[arg].initial_situation
        /\ Len(Session.choices_made) = 0
        /\ Session.timeline_alterations = <<>>
        /\ Session.is_complete = FALSE

\* a valid scenario started over a session that had ended
C1_Witness ==
    /\ op = "start_scenario"
    /\ arg = "d_day_weather"
    /\ prior = "Complete"
    /\ ret = "True"

\* The consequence is a record of the expected shape: 'new_situation'
\* present, 'alterations' a list or missing, 'is_ending' a boolean or missing.
IsConsequenceRecord(c) ==
    /\ c.kind = "object"
    /\ c.new_situation # Absent
    /\ c.alterations.kind \in {"list", "absent"}
    /\ c.is_ending \in {"true", "false", Absent}

\* C2: in an active session, a make_choice whose generate_consequence call
\* returns the record {new_situation: X, alterations: L, is_ending: E}
\* returns True, makes X the situation, appends L in order at the end of the
\* alteration log (nothing when 'alterations' is missing) and completes the
\* session exactly when E is true.
C2_ConsequenceApplied ==
    [][ ( /\ op' = "make_choice"
          /\ Phase(current_state) = "Active"
          /\ IsConsequenceRecord(consequence') ) =>
        ( /\ ret' = "True"
          /\ current_state' # <<>>
          /\ current_state'[1].current_situation = consequence'.new_situation
          /\ current_state'[1].timeline_alterations =
                 Session.timeline_alterations \o
                    (IF consequence'.alterations.kind = "absent"
                     THEN <<>> ELSE consequence'.alterations.list)
          /\ current_state'[1].is_complete = (consequence'.is_ending = "true")
          /\ current_state'[1].scenario = Session.scenario ) ]_vars

\* the record {X, ["B", "C"], true} applied to a session whose log held "A"
C2_Witness ==
    /\ op = "make_choice"
    /\ prior = "Active"
    /\ ret = "True"
    /\ consequence.kind = "object"
    /\ consequence.new_situation = "X"
    /\ consequence.alterations = [kind |-> "list", list |-> <<"B", "C">>]
    /\ consequence.is_ending = "true"
    /\ Session.current_situation = "X"
    /\ Session.timeline_alterations = <<"A", "B", "C">>
    /\ Session.is_complete

\* C3: in an active session, a make_choice whose generate_consequence call
\* fails (the service call raises, or the text is not JSON) returns True, sets
\* the situation to the fallback sentence quoting the description of the
\* chosen option, leaves the alteration log as it was and the session active.
C3_ConsequenceFallback ==
    [][ ( /\ op' = "make_choice"
          /\ Phase(current_state) = "Active"
          /\ consequence'.kind \in {"raise", "not_json"} ) =>
        ( /\ ret' = "True"
          /\ current_state' # <<>>
          /\ LET made == current_state'[1].choices_made
                 chosen == made[Len(made)]
             IN  /\ Len(made) = Len(Session.choices_made) + 1
                 /\ chosen.id = arg'
                 /\ \E i \in DOMAIN available_choices'.list :
                        available_choices'.list[i] = chosen
                 /\ current_state'[1].current_situation =
                        "Your choice to '" \o chosen.description
                           \o "' has created ripple effects through history..."
          /\ current_state'[1].timeline_alterations = Session.timeline_alterations
          /\ current_state'[1].is_complete = FALSE
          /\ Phase(current_state') = "Active" ) ]_vars

\* the service fails on the consequence of a choice made after "A" was logged
C3_Witness ==
    /\ op = "make_choice"
    /\ prior = "Active"
    /\ ret = "True"
    /\ consequence.kind = "raise"
    /\ arg = "choice_1"
    /\ Session.timeline_alterations = <<"A">>
    /\ Session.current_situation =
          "Your choice to 'Evacuate the scrolls' has created ripple effects through history..."
    /\ ~Session.is_complete

\* choice_id is the id of no option of the set make_choice worked with
\* (there is no set when there is no session)
MatchesNoOption(available, choice_id) ==
    \/ available.kind = "uncalled"
    \/ /\ available.kind = "list"
       /\ \A i \in DOMAIN available.list : available.list[i].id # choice_id

\* C4: make_choice with an id that is the id of no option of the latest
\* generated option set, or with no session, returns False, leaves the
\* session (situation, history, alteration log, completion flag) as it was
\* and sends no consequence request.
C4_NoMatchReturnsFalse ==
    [][ ( /\ op' = "make_choice"
          /\ MatchesNoOption(available_choices', arg') ) =>
        ( /\ ret' = "False"
          /\ current_state' = current_state
          /\ consequence'.kind = "uncalled"
          /\ \A i \in DOMAIN reqs' : reqs'[i] # "generate_consequence" ) ]_vars

\* C5: in an active session, when generate_choices raises or its text is
\* not a list of options under the key 'choices' (not JSON, not an object,
\* 'choices' null), get_available_choices returns the three fallback options
\* diplomatic, aggressive, wait in this order, does not raise and leaves the
\* session as it was.
C5_FallbackOnBadReply ==
    [][ ( /\ op' = "get_available_choices"
          /\ Phase(current_state) = "Active"
          /\ response' \in {"raise", "not_json", "not_object", "null"} ) =>
        ( /\ ret' = "list"
          /\ Len(available_choices'.list) = 3
          /\ available_choices'.list[1].id = "diplomatic"
          /\ available_choices'.list[2].id = "aggressive"
          /\ available_choices'.list[3].id = "wait"
          /\ current_state' = current_state ) ]_vars

\* C6: get_available_choices called with no session or with a session that
\* has ended returns an empty sequence.
C6_NoChoicesUnlessActive ==
    (op = "get_available_choices" /\ prior \in {"Uninitialized", "Complete"}) =>
        /\ ret = "list"
        /\ available_choices = [kind |-> "list", list |-> <<>>]

\* the choices of a session that ended after two decisions are asked for
C6_Witness ==
    /\ op = "get_available_choices"
    /\ prior = "Complete"
    /\ Phase(current_state) = "Complete"
    /\ Len(Session.choices_made) = 2
    /\ available_choices.list = <<>>

\* C7 as stated: in an active session get_available_choices never returns an
\* empty sequence, whatever the service replies.
C7_NeverEmptyWhenActive ==
    (op = "get_available_choices" /\ prior = "Active" /\ ret = "list") =>
        available_choices.list # <<>>

\* C7 amended: get_available_choices returns an empty sequence in an active
\* session only when the reply is a JSON object without the key 'choices' or
\* with an empty 'choices' list; when the service call raises or the reply
\* is not a JSON object it returns the three fallback options.
C7_EmptyOnlyOnEmptyReply ==
    /\ (op = "get_available_choices" /\ ret = "list" /\ available_choices.list = <<>>) =>
          \/ prior \in {"Uninitialized", "Complete"}
          \/ response \in {"no_key", "list"}
    /\ (op = "get_available_choices" /\ prior = "Active"
           /\ response \in {"raise", "not_json", "not_object"}) =>
          /\ ret = "list"
          /\ Len(available_choices.list) = 3

\* an active session is answered with no choices: the reply has no 'choices'
C7_Witness ==
    /\ op = "get_available_choices"
    /\ prior = "Active"
    /\ response = "no_key"
    /\ ret = "list"
    /\ available_choices.list = <<>>
    /\ Phase(current_state) = "Active"

\* C8: whatever the service does, get_available_choices and make_choice
\* return a value and raise nothing to their caller.
C8_NeverRaises ==
    (op \in {"get_available_choices", "make_choice"}) => ret # "raised"

\* C9: while the completion flag of the session is up, get_available_choices,
\* make_choice and get_current_state send no request to the AIClient.
C9_NoRequestWhenComplete ==
    ( /\ prior = "Complete"
      /\ op \in {"get_available_choices", "make_choice", "get_current_state"} ) =>
        /\ reqs = <<>>
        /\ response = "none"
        /\ consequence.kind = "uncalled"

\* make_choice with the id of a fallback option on a session that has ended
C9_Witness ==
    /\ op = "make_choice"
    /\ arg = "diplomatic"
    /\ prior = "Complete"
    /\ Session.is_complete
    /\ reqs = <<>>

\* C10: the completion flag never goes back down within a session: on a
\* session that has ended, get_current_state, get_available_choices and
\* make_choice change nothing (make_choice returns False), and an active
\* session follows an ended one only through a start_scenario that returns
\* True.
C10_CompleteIsTerminal ==
    [][ Phase(current_state) = "Complete" =>
        ( /\ (op' \in {"get_current_state", "get_available_choices", "make_choice"}) =>
                /\ current_state' = current_state
                /\ Phase(current_state') = "Complete"
          /\ (op' = "make_choice") => ret' = "False"
          /\ (Phase(current_state') # "Complete") =>
                /\ op' = "start_scenario"
                /\ ret' = "True"
                /\ Phase(current_state') = "Active" ) ]_vars

\* a choice refused by a session that ended with a log of three alterations
C10_Witness ==
    /\ op = "make_choice"
    /\ prior = "Complete"
    /\ ret = "False"
    /\ Session.is_complete
    /\ Len(Session.timeline_alterations) = 3
    /\ Len(Session.choices_made) = 2

\* C11: when an active session has no choices to present
\* (get_available_choices returned nothing), the session becomes Complete:
\* once main() has handled the empty result and is back at the scenario
\* menu, the engine's session is Complete and is_active() is false.
C11_NoChoicesCompletes ==
    (pc = "select_scenario" /\ left = "no_choices") =>
        /\ Phase(current_state) = "Complete"
        /\ ~is_active

\* C12: start_scenario with an identifier that is not in the catalog returns
\* False and changes nothing: with no session the engine stays without one
\* (is_active false, get_current_state empty), and an existing session keeps
\* its scenario, situation, history, alteration log and completion flag.
C12_UnknownScenarioChangesNothing ==
    [][ (op' = "start_scenario" /\ arg' \notin DOMAIN AVAILABLE_SCENARIOS) =>
        ( /\ ret' = "False"
          /\ current_state' = current_state
          /\ _active' = _active
          /\ is_active' = is_active
          /\ (current_state = <<>>) =>
                /\ ~is_active'
                /\ CurrentStateDict(current_state').keys = {} ) ]_vars

\* an unknown scenario asked for in the middle of a session with one decision
C12_Witness ==
    /\ op = "start_scenario"
    /\ arg = "atlantis"
    /\ ret = "False"
    /\ prior = "Active"
    /\ is_active
    /\ Len(Session.choices_made) = 1
    /\ Session.timeline_alterations = <<"B", "C">>

\* C13: get_current_state is a pure read: it changes nothing in the engine
\* and sends no request; it returns the scenario name, the situation, the
\* number of decisions and the alterations of the session, or the empty dict
\* when there is no session; a second call right after the first returns the
\* same value.
C13_CurrentStateIsPureRead ==
    [][ (op' = "get_current_state") =>
        ( /\ current_state' = current_state
          /\ _active' = _active
          /\ reqs' = <<>>
          /\ Len(view') = 1
          /\ IF current_state = <<>>
             THEN view'[1].keys = {}
             ELSE /\ view'[1].keys = {"scenario_name", "situation", "choices_made",
                                      "timeline_alterations"}
                  /\ view'[1].scenario_name = Session.scenario.name
                  /\ view'[1].situation = Session.current_situation
                  /\ view'[1].choices_made = Len(Session.choices_made)
                  /\ view'[1].timeline_alterations = Session.timeline_alterations
          /\ (op = "get_current_state") => view' = view ) ]_vars

\* the state of a session with one decision and two alterations is read
C13_Witness ==
    /\ op = "get_current_state"
    /\ prior = "Active"
    /\ view # <<>>
    /\ view[1].scenario_name = "The Library of Alexandria"
    /\ view[1].situation = "X"
    /\ view[1].choices_made = 1
    /\ view[1].timeline_alterations = <<"B", "C">>

\* C14: make_choice matches choice_id against the option set of its own
\* generate_choices call, not against the set the preceding
\* get_available_choices returned: the option it records is an element of
\* the fresh set, and an id of the earlier set that is in no option of the
\* fresh set makes it return False and change nothing.
C14_MatchesFreshSet ==
    [][ (op' = "make_choice" /\ current_state # <<>>) =>
        ( /\ (current_state' # current_state) =>
                /\ current_state' # <<>>
                /\ Len(current_state'[1].choices_made) = Len(Session.choices_made) + 1
                /\ \E i \in DOMAIN available_choices'.list :
                      available_choices'.list[i] =
                         current_state'[1].choices_made[Len(current_state'[1].choices_made)]
          /\ ( /\ op = "get_available_choices"
               /\ \E i \in DOMAIN available_choices.list :
                     available_choices.list[i].id = arg'
               /\ available_choices'.kind = "list"
               /\ \A i \in DOMAIN available_choices'.list :
                     available_choices'.list[i].id # arg' ) =>
                /\ ret' = "False"
                /\ current_state' = current_state ) ]_vars

IsPrefix(p, q) ==
    /\ Len(p) <= Len(q)
    /\ SubSeq(q, 1, Len(p)) = p

\* C15: within a session the choice history and the alteration log only grow
\* at the end, and the history grows by exactly one on a make_choice that
\* returns True and not at all on any other call, so that the decision count
\* is the number of make_choice calls that returned True.
C15_HistoryCountsTrueCalls ==
    [][ (current_state # <<>> /\ op' # "start_scenario") =>
        ( /\ current_state' # <<>>
          /\ IsPrefix(Session.choices_made, current_state'[1].choices_made)
          /\ IsPrefix(Session.timeline_alterations, current_state'[1].timeline_alterations)
          /\ Len(current_state'[1].choices_made) =
                Len(Session.choices_made)
                   + (IF op' = "make_choice" /\ ret' = "True" THEN 1 ELSE 0)
          /\ CurrentStateDict(current_state').choices_made =
                Len(current_state'[1].choices_made) ) ]_vars

\* C16: in main(), when a session has become Complete through the ending
\* flag of a consequence, the situation that consequence produced has been
\* put on the screen and the ending acknowledged (display_ending waits for
\* Enter) by the time main() is back at the scenario menu.
C16_FinalSituationShown ==
    (pc = "select_scenario" /\ left = "not_active" /\ Phase(current_state) = "Complete") =>
        /\ shown.situation = Session.current_situation
        /\ shown.timeline_alterations = Session.timeline_alterations
        /\ shown.by = "display_ending"

====
